---- MODULE Spec2Model ----
(***************************************************************************)
(* Model of app.py, the Streamlit "Fantasy Hockey Multi-Player Comparison  *)
(* Dashboard".  Streamlit re-executes the script top to bottom on every    *)
(* interaction, so one execution of the script is one step.  What          *)
(* survives from one execution to the next is the CSV file at DATA_PATH    *)
(* and the st.cache_data entry of build_full_stats_df.                     *)
(*                                                                         *)
(* A DataFrame is a record [cols, rows]: cols is the list of its numeric   *)
(* columns (what select_dtypes(include='number') returns), rows the list   *)
(* of its rows in index order, each with the 'name' cell and the numeric   *)
(* cells.  Numeric cells are integers (no NaN cells), names are non-empty  *)
(* strings, given as sequences of characters.                              *)
(*                                                                         *)
(* pandas percentiles are floats k*100/(2n), n the number of rows; the     *)
(* model keeps them exactly, as the integer numerator k*100 over 2n.       *)
(*                                                                         *)
(* Spec is the application over its life, started on a stored table with   *)
(* at most one numeric column; SingleRun is the first execution alone,     *)
(* started on every stored table within the bounds.                        *)
(***************************************************************************)
EXTENDS Integers, Sequences, FiniteSets

\* Largest number of rows of a table in the stored CSV at start-up.
MaxRows == 2

\* ------------------------------------------------------------------ data
\* Numeric column lists a table can have (the empty list: a table with
\* the 'name' column and no numeric column).
ColumnLists == { <<>>, <<"goals">>, <<"goals", "plusMinus">> }

\* Values of a numeric cell.
CellValues(c) == IF c = "plusMinus" THEN { -1, 0, 1 } ELSE { 0, 1, 2 }

\* Player names.
Names == { <<"A", "l">>, <<"B", "o">> }

\* Texts typed into a search box: nothing, "a", "O, x", "b,".
SearchTexts == { <<>>, <<"a">>, <<"O", ",", " ", "x">>, <<"b", ",">> }

Range(s) == { s[i] : i \in DOMAIN s }

RowsOf(cols) ==
  { r \in [name : Names, vals : [Range(cols) -> -1..2]] :
      \A c \in Range(cols) : r.vals[c] \in CellValues(c) }

Frames(columnLists, maxRows) ==
  UNION { { [cols |-> cols, rows |-> rows] :
              rows \in UNION { [1..n -> RowsOf(cols)] : n \in 0..maxRows } } :
          cols \in columnLists }

\* pd.DataFrame(): no column, no row.
EmptyFrame == [cols |-> <<>>, rows |-> <<>>]

\* df.empty
empty(df) == Len(df.rows) = 0

\* Tables the NHL API can deliver through build_full_stats_df: at least one
\* player (an empty roster list makes pd.merge raise), and at least one
\* numeric column (the 'id' column and the stat columns are numeric).
LiveFrames ==
  { [cols |-> <<"goals", "plusMinus">>, rows |-> rows] : rows \in
      { << [name |-> <<"A", "l">>, vals |-> [c \in {"goals", "plusMinus"} |-> 1]] >>,
        << [name |-> <<"B", "o">>,
            vals |-> [c \in {"goals", "plusMinus"} |-> IF c = "goals" THEN 1 ELSE 0]],
           [name |-> <<"B", "o">>,
            vals |-> [c \in {"goals", "plusMinus"} |-> IF c = "goals" THEN 0 ELSE -1]] >> } }

\* An optional value: a file that may not exist, a cache entry that may be
\* missing, a call that may not have been made.
Absent == [present |-> FALSE, value |-> <<>>]

Some(v) == [present |-> TRUE, value |-> v]

\* ------------------------------------------------------------------- CSV
\* A CSV file is its header and its lines of cells.  A cell is text; `num`
\* says whether the text parses as a number, and n is then that number.
Text(str) == [num |-> FALSE, s |-> str, n |-> 0]

Number(v) == [num |-> TRUE, s |-> <<>>, n |-> v]

\* df.to_csv(DATA_PATH, index=False): the header, then one line per row,
\* the 'name' cell first and the numeric cells in column order.
to_csv(df) ==
  [header |-> <<"name">> \o df.cols,
   lines  |-> [i \in 1..Len(df.rows) |->
                 << Text(df.rows[i].name) >> \o
                 [k \in 1..Len(df.cols) |-> Number(df.rows[i].vals[df.cols[k]])]]]

\* The positions in S, in file order.
RECURSIVE InOrder(_)
InOrder(S) ==
  IF S = {} THEN <<>>
  ELSE LET first == CHOOSE k \in S : \A j \in S : k <= j
       IN  << first >> \o InOrder(S \ {first})

\* pd.read_csv(DATA_PATH) followed by the accessors the script uses: a
\* column is numeric when the file has at least one line and every cell of
\* the column parses as a number (a column without cells gets dtype
\* object); the 'name' column is looked up by its header.
read_csv(file) ==
  LET n == Len(file.lines)
      IsNumeric(k) == n > 0 /\ \A i \in 1..n : file.lines[i][k].num
      namePos == CHOOSE k \in DOMAIN file.header : file.header[k] = "name"
      numPos == InOrder({ k \in DOMAIN file.header : IsNumeric(k) })
      cols == [j \in 1..Len(numPos) |-> file.header[numPos[j]]]
      PosOf(c) == CHOOSE k \in Range(numPos) : file.header[k] = c
  IN  [cols |-> cols,
       rows |-> [i \in 1..n |->
                   [name |-> file.lines[i][namePos].s,
                    vals |-> [c \in Range(cols) |-> file.lines[i][PosOf(c)].n]]]]

\* The files DATA_PATH can hold at start-up.
CsvFiles == { to_csv(f) : f \in Frames(ColumnLists, MaxRows) }

\* The same, of tables with at most the 'goals' column.
NarrowCsvFiles == { to_csv(f) : f \in Frames({ <<>>, <<"goals">> }, MaxRows) }

\* ------------------------------------------------------------ str methods
\* str.lower() on one character.
LowerChar(ch) ==
  CASE ch = "A" -> "a"
    [] ch = "B" -> "b"
    [] ch = "O" -> "o"
    [] OTHER -> ch

lower(s) == [i \in 1..Len(s) |-> LowerChar(s[i])]

RECURSIVE lstrip(_)
lstrip(s) == IF s # <<>> /\ Head(s) = " " THEN lstrip(Tail(s)) ELSE s

RECURSIVE rstrip(_)
rstrip(s) ==
  IF s # <<>> /\ s[Len(s)] = " " THEN rstrip(SubSeq(s, 1, Len(s) - 1)) ELSE s

\* str.strip()
strip(s) == rstrip(lstrip(s))

\* str.split(","): the pieces between the commas, empty pieces kept.
RECURSIVE split(_, _)
split(s, cur) ==
  IF s = <<>> THEN << cur >>
  ELSE IF Head(s) = "," THEN << cur >> \o split(Tail(s), <<>>)
  ELSE split(Tail(s), Append(cur, Head(s)))

\* `sub in s` for strings.
Contains(sub, s) ==
  \E i \in 0..(Len(s) - Len(sub)) : SubSeq(s, i + 1, i + Len(sub)) = sub

\* ---------------------------------------------------------------- widgets
\* df['name'].tolist()
player_names(df) == [i \in 1..Len(df.rows) |-> df.rows[i].name]

\* The options of a side's multiselect, as positions in player_names.
side_options(df, input) ==
  IF input # <<>>
  THEN LET side_list == [k \in DOMAIN split(input, <<>>) |-> strip(split(input, <<>>)[k])]
       IN  { i \in 1..Len(df.rows) :
               \E k \in DOMAIN side_list :
                 Contains(lower(side_list[k]), lower(player_names(df)[i])) }
  ELSE 1..Len(df.rows)

\* What a user can pick in a side's multiselect: any of the options that
\* some search text leaves.
pickable(df) ==
  { p \in SUBSET (1..Len(df.rows)) :
      \E input \in SearchTexts : p \subseteq side_options(df, input) }

\* st.multiselect returns the labels of the options picked.  Only
\* membership in the returned list is ever used, so it is kept as a set.
multiselect(df, picked) == { player_names(df)[i] : i \in picked }

\* -------------------------------------------------------------- DataFrame
\* df['name'].isin(players): the positions of the rows the mask keeps.
isin(df, players) == { i \in 1..Len(df.rows) : df.rows[i].name \in players }

RECURSIVE SumOver(_, _, _)
\* Sum of column c over the rows at the positions in `idx`.
SumOver(df, idx, c) ==
  IF idx = {} THEN 0
  ELSE LET i == CHOOSE j \in idx : TRUE
       IN  df.rows[i].vals[c] + SumOver(df, idx \ {i}, c)

ZeroSeries(numeric_cols) == [c \in Range(numeric_cols) |-> 0]

OneSeries(numeric_cols) == [c \in Range(numeric_cols) |-> 1]

\* aggregate_players with [1]*len(numeric_cols) for an empty selection.
aggregate_players_ones(df, players, numeric_cols) ==
  IF players = {}
  THEN OneSeries(numeric_cols)
  ELSE [c \in Range(numeric_cols) |-> SumOver(df, isin(df, players), c)]

\* aggregate_players(df, players, numeric_cols)
aggregate_players(df, players, numeric_cols) ==
  IF players = {}
  THEN ZeroSeries(numeric_cols)
  ELSE [c \in Range(numeric_cols) |-> SumOver(df, isin(df, players), c)]

\* Ordinal ranks first+1 .. first+count, summed.
RECURSIVE SumRanks(_, _)
SumRanks(first, count) ==
  IF count = 0 THEN 0 ELSE (first + count) + SumRanks(first, count - 1)

\* rank with method='min': equal values share their lowest ordinal rank.
rank_min(df, c, i) ==
  LET v == df.rows[i].vals[c]
      less == Cardinality({ j \in 1..Len(df.rows) : df.rows[j].vals[c] < v })
  IN  2 * (less + 1)

\* Twice the rank of row i in column c under DataFrame.rank's default
\* method 'average': the rows are ordered by value, equal values share the
\* mean of the ordinal ranks they occupy.
rank(df, c, i) ==
  LET v == df.rows[i].vals[c]
      less == Cardinality({ j \in 1..Len(df.rows) : df.rows[j].vals[c] < v })
      same == Cardinality({ j \in 1..Len(df.rows) : df.rows[j].vals[c] = v })
  IN  (2 * SumRanks(less, same)) \div same

\* df[numeric_cols].rank(pct=True) * 100, as numerators over 2 * len(df).
percentiles(df, c, i) == 100 * rank(df, c, i)

side_percentiles(df, players, numeric_cols) ==
  [c \in Range(numeric_cols) |->
     LET RECURSIVE Acc(_)
         Acc(idx) == IF idx = {} THEN 0
                     ELSE LET i == CHOOSE j \in idx : TRUE
                          IN  percentiles(df, c, i) + Acc(idx \ {i})
     IN  Acc(isin(df, players))]

\* Series.sum() of a boolean Series: the number of its True entries.
CountTrue(series) == Cardinality({ k \in DOMAIN series : series[k] })

\* (x >= y).sum()
category_wins_ge(x, y, numeric_cols) ==
  CountTrue([k \in DOMAIN numeric_cols |-> x[numeric_cols[k]] >= y[numeric_cols[k]]])

\* (x > y).sum()
category_wins(x, y, numeric_cols) ==
  CountTrue([k \in DOMAIN numeric_cols |-> x[numeric_cols[k]] > y[numeric_cols[k]]])

\* (x >= y).sum() in the place of the ties
category_ties_ge(x, y, numeric_cols) ==
  CountTrue([k \in DOMAIN numeric_cols |-> x[numeric_cols[k]] >= y[numeric_cols[k]]])

\* (x == y).sum()
category_ties_of(x, y, numeric_cols) ==
  CountTrue([k \in DOMAIN numeric_cols |-> x[numeric_cols[k]] = y[numeric_cols[k]]])

\* The headline with `>=` in its first test.
matchup_ge(wins_a, wins_b) ==
  IF wins_a >= wins_b THEN "Side A wins"
  ELSE IF wins_b > wins_a THEN "Side B wins"
  ELSE "tied"

\* The headline the script prints last.
matchup(wins_a, wins_b) ==
  IF wins_a > wins_b THEN "Side A wins"
  ELSE IF wins_b > wins_a THEN "Side B wins"
  ELSE "tied"

\* highlight_comparison(row): which of the four cells of a row is coloured.
highlight_comparison(a, b, pa, pb) ==
  [side_a |-> a > b, side_b |-> (~(a > b)) /\ b > a,
   pct_a  |-> pa > pb, pct_b |-> (~(pa > pb)) /\ pb > pa]

\* ----------------------------------------------------------------- state
VARIABLES
  csv,                 \* the file at DATA_PATH, if it exists
  cache,               \* st.cache_data entry of build_full_stats_df
  fetch,               \* what the button did in the latest execution
  live,                \* what build_full_stats_df returned when it last returned
  repeated,            \* history: the latest execution repeated the one before it
  df,                  \* the script's df when the execution ended
  picked_a, picked_b,  \* positions of the options picked in each multiselect
  side_a_selected, side_b_selected,
  shown,               \* whether the comparison section ran
  numeric_cols,
  side_a_stats, side_b_stats,
  side_a_percentiles, side_b_percentiles,
  styles,
  category_wins_a, category_wins_b, category_ties,
  headline

storage == << csv, cache >>

widgets == << picked_a, picked_b, side_a_selected, side_b_selected >>

results == << shown, numeric_cols, side_a_stats, side_b_stats,
              side_a_percentiles, side_b_percentiles, styles,
              category_wins_a, category_wins_b, category_ties, headline >>

vars == << storage, fetch, live, repeated, df, widgets, results >>

\* ---------------------------------------------------------------- script
\* Load CSV data by default.
load_csv(file) == IF file.present THEN read_csv(file.value) ELSE EmptyFrame

\* The block without `df = pd.DataFrame()` in its except clause.
df_after_button_keep(loaded, outcome, frame) ==
  IF outcome = "ok" THEN frame ELSE loaded

\* df after the "Fetch Live NHL Stats" block.  outcome: "none" the button
\* was not pressed, "ok" build_full_stats_df returned `frame`, "failed" a
\* RequestException was caught, "uncaught" another exception ended the run.
df_after_button(loaded, outcome, frame) ==
  CASE outcome = "ok" -> frame
    [] outcome = "failed" -> EmptyFrame
    [] OTHER -> loaded

\* The block when every execution writes the file back, with
\* DataFrame.to_csv taking the first row for the header.
csv_after_button_rewrite(file, outcome, frame) ==
  IF outcome = "ok" THEN Some(to_csv(frame))
  ELSE IF file.present
       THEN Some(to_csv([cols |-> load_csv(file).cols,
                         rows |-> SubSeq(load_csv(file).rows, 2,
                                         Len(load_csv(file).rows))]))
       ELSE file

\* The block when a fetched table is appended to a stored table of the
\* same columns.
csv_after_button_append(file, outcome, frame) ==
  IF outcome = "ok"
  THEN IF file.present /\ load_csv(file).cols = frame.cols
       THEN Some(to_csv([cols |-> frame.cols,
                         rows |-> load_csv(file).rows \o frame.rows]))
       ELSE Some(to_csv(frame))
  ELSE file

\* The file at DATA_PATH after the "Fetch Live NHL Stats" block.
csv_after_button(file, outcome, frame) ==
  IF outcome = "ok" THEN Some(to_csv(frame)) ELSE file

\* `if not df.empty:` and the run got that far.
reaches_comparison(d, outcome) == outcome # "uncaught" /\ ~empty(d)

\* The comparison section, for the options picked in the two multiselects.
Comparison(d, pa, pb) ==
  /\ picked_a' = pa
  /\ picked_b' = pb
  /\ side_a_selected' = multiselect(d, pa)
  /\ side_b_selected' = multiselect(d, pb)
  /\ shown' = TRUE
  /\ numeric_cols' = d.cols
  /\ side_a_stats' = aggregate_players(d, side_a_selected', numeric_cols')
  /\ side_b_stats' = aggregate_players(d, side_b_selected', numeric_cols')
  /\ side_a_percentiles' = side_percentiles(d, side_a_selected', numeric_cols')
  /\ side_b_percentiles' = side_percentiles(d, side_b_selected', numeric_cols')
  /\ styles' = [c \in Range(numeric_cols') |->
                  highlight_comparison(side_a_stats'[c], side_b_stats'[c],
                                       side_a_percentiles'[c], side_b_percentiles'[c])]
  /\ category_wins_a' = category_wins(side_a_stats', side_b_stats', numeric_cols')
  /\ category_wins_b' = category_wins(side_b_stats', side_a_stats', numeric_cols')
  /\ category_ties' = category_ties_of(side_a_stats', side_b_stats', numeric_cols')
  /\ headline' = matchup(category_wins_a', category_wins_b')

\* Nothing below `if not df.empty:` ran.
NoComparison ==
  /\ picked_a' = {}
  /\ picked_b' = {}
  /\ side_a_selected' = {}
  /\ side_b_selected' = {}
  /\ shown' = FALSE
  /\ numeric_cols' = <<>>
  /\ side_a_stats' = <<>>
  /\ side_b_stats' = <<>>
  /\ side_a_percentiles' = <<>>
  /\ side_b_percentiles' = <<>>
  /\ styles' = <<>>
  /\ category_wins_a' = 0
  /\ category_wins_b' = 0
  /\ category_ties' = 0
  /\ headline' = "none"

\* One execution of the script, top to bottom.
Execute(outcome, frame) ==
  /\ df' = df_after_button(load_csv(csv), outcome, frame)
  /\ csv' = csv_after_button(csv, outcome, frame)
  /\ fetch' = outcome
  /\ live' = IF outcome = "ok" THEN Some(frame) ELSE live
  /\ IF reaches_comparison(df', outcome)
     THEN \E pa \in pickable(df'), pb \in pickable(df') : Comparison(df', pa, pb)
     ELSE NoComparison
  /\ repeated' = /\ fetch = "none" /\ outcome = "none"
                 /\ picked_a' = picked_a /\ picked_b' = picked_b

\* The server starts: nothing is cached, the script has not run.
Start(files) ==
  /\ csv \in {Absent} \cup { Some(f) : f \in files }
  /\ cache = Absent
  /\ fetch = "start"
  /\ live = Absent
  /\ repeated = FALSE
  /\ df = EmptyFrame
  /\ picked_a = {}
  /\ picked_b = {}
  /\ side_a_selected = {}
  /\ side_b_selected = {}
  /\ shown = FALSE
  /\ numeric_cols = <<>>
  /\ side_a_stats = <<>>
  /\ side_b_stats = <<>>
  /\ side_a_percentiles = <<>>
  /\ side_b_percentiles = <<>>
  /\ styles = <<>>
  /\ category_wins_a = 0
  /\ category_wins_b = 0
  /\ category_ties = 0
  /\ headline = "none"

\* A rerun in which the button was not pressed.
Rerun == Execute("none", EmptyFrame) /\ UNCHANGED cache

\* The button was pressed and build_full_stats_df ran against the API.
FetchLive ==
  /\ ~cache.present
  /\ \E frame \in LiveFrames : Execute("ok", frame) /\ cache' = Some(frame)

\* The button was pressed within the ttl of an earlier fetch.
FetchCached ==
  /\ cache.present
  /\ Execute("ok", cache.value)
  /\ UNCHANGED cache

\* The button was pressed and requests raised a RequestException.
FetchFailed ==
  /\ ~cache.present
  /\ Execute("failed", EmptyFrame)
  /\ UNCHANGED cache

\* The button was pressed and the fetch raised something else.
FetchRaised ==
  /\ ~cache.present
  /\ Execute("uncaught", EmptyFrame)
  /\ UNCHANGED cache

\* The ttl of the cache entry ran out.
CacheExpired ==
  /\ cache.present
  /\ cache' = Absent
  /\ UNCHANGED << csv, fetch, live, repeated, df, widgets, results >>

Init == Start(NarrowCsvFiles)

Next ==
  \/ Rerun
  \/ FetchLive
  \/ FetchCached
  \/ FetchFailed
  \/ FetchRaised
  \/ CacheExpired

\* The application over its life: any sequence of executions.
Spec == Init /\ [][Next]_vars

InitAnyFile == Start(CsvFiles)

\* The first execution after the server started.
FirstRerun == fetch = "start" /\ Rerun

FirstFetchLive == fetch = "start" /\ FetchLive

FirstFetchFailed == fetch = "start" /\ FetchFailed

FirstFetchRaised == fetch = "start" /\ FetchRaised

FirstExecution ==
  \/ FirstRerun
  \/ FirstFetchLive
  \/ FirstFetchFailed
  \/ FirstFetchRaised

\* One execution of the script, from any stored file.
SingleRun == InitAnyFile /\ [][FirstExecution]_vars

\* ================================================================ claims
\* The latest execution got to the end of the "Fetch Live NHL Stats" block
\* (it was not ended by an uncaught exception of the fetch).
PastButton == fetch \in { "none", "ok", "failed" }

NoneComputed ==
  /\ ~shown
  /\ side_a_stats = <<>> /\ side_b_stats = <<>>
  /\ side_a_percentiles = <<>> /\ side_b_percentiles = <<>>
  /\ headline = "none"

Headlines == { "Side A wins", "Side B wins", "tied" }

\* C1: a side's aggregate in a category is the sum of the category's raw
\* values over exactly the rows picked for that side, each once, also when
\* two rows share a name.
C1_SumOverPickedRows ==
  shown =>
    \A c \in Range(numeric_cols) :
      /\ side_a_stats[c] = SumOver(df, picked_a, c)
      /\ side_b_stats[c] = SumOver(df, picked_b, c)

\* C2: with a non-empty table, a side without selected players does not
\* make the comparison fail: that side's aggregate has one entry per
\* category, each 0, and the tallies and the headline are computed.
C2_EmptySideIsZeroVector ==
  (PastButton /\ ~empty(df)) =>
    /\ shown
    /\ picked_a = {} =>
         /\ DOMAIN side_a_stats = Range(df.cols)
         /\ \A c \in Range(df.cols) : side_a_stats[c] = 0
    /\ picked_b = {} =>
         /\ DOMAIN side_b_stats = Range(df.cols)
         /\ \A c \in Range(df.cols) : side_b_stats[c] = 0
    /\ (picked_a = {} \/ picked_b = {}) =>
         /\ DOMAIN styles = Range(df.cols)
         /\ category_wins_a + category_wins_b + category_ties = Len(df.cols)
         /\ headline \in Headlines

C2_Witness ==
  /\ shown
  /\ picked_b = {}
  /\ picked_a # {}
  /\ Len(numeric_cols) = 2
  /\ headline = "Side B wins"

\* C3: every category is in exactly one tally: Side A's iff A's aggregate
\* is strictly greater, Side B's iff B's is, the ties iff they are equal;
\* the three tallies add up to the number of categories.
C3_TalliesPartition ==
  shown =>
    /\ category_wins_a =
         Cardinality({ c \in Range(numeric_cols) : side_a_stats[c] > side_b_stats[c] })
    /\ category_wins_b =
         Cardinality({ c \in Range(numeric_cols) : side_b_stats[c] > side_a_stats[c] })
    /\ category_ties =
         Cardinality({ c \in Range(numeric_cols) : side_a_stats[c] = side_b_stats[c] })
    /\ category_wins_a + category_wins_b + category_ties = Len(numeric_cols)

C3_Witness ==
  /\ shown
  /\ picked_a # {}
  /\ picked_b # {}
  /\ category_wins_a = 0
  /\ category_wins_b = 1
  /\ category_ties = 1

\* C4: a run that shows a comparison reports exactly one outcome: Side A
\* wins iff it has strictly more category wins, Side B wins iff it has
\* strictly more, tied iff the two counts are equal.
C4_OneOutcome ==
  shown =>
    /\ headline \in Headlines
    /\ headline = "Side A wins" <=> category_wins_a > category_wins_b
    /\ headline = "Side B wins" <=> category_wins_b > category_wins_a
    /\ headline = "tied" <=> category_wins_a = category_wins_b

C4_Witness ==
  /\ shown
  /\ picked_a # {}
  /\ side_a_selected = side_b_selected
  /\ Len(numeric_cols) = 2
  /\ headline = "tied"

\* Number of rows of the table whose value in column c is at most v.
RowsAtMost(c, v) ==
  Cardinality({ i \in 1..Len(df.rows) : df.rows[i].vals[c] <= v })

\* Number of rows of the table whose value in column c is less than v.
RowsBelow(c, v) ==
  Cardinality({ i \in 1..Len(df.rows) : df.rows[i].vals[c] < v })

RECURSIVE OwnPercentiles(_, _)
OwnPercentiles(idx, c) ==
  IF idx = {} THEN 0
  ELSE LET i == CHOOSE j \in idx : TRUE
           v == df.rows[i].vals[c]
       IN  100 * (RowsBelow(c, v) + RowsAtMost(c, v) + 1) + OwnPercentiles(idx \ {i}, c)

C6_EmptySideB ==
  (shown /\ picked_b = {}) =>
    /\ \A c \in Range(numeric_cols) :
         /\ side_b_stats[c] = 0
         /\ styles[c].side_a <=> side_a_stats[c] > 0
         /\ styles[c].side_b <=> side_a_stats[c] < 0
    /\ category_wins_a = Cardinality({ c \in Range(numeric_cols) : side_a_stats[c] > 0 })
    /\ category_wins_b = Cardinality({ c \in Range(numeric_cols) : side_a_stats[c] < 0 })
    /\ category_ties = Cardinality({ c \in Range(numeric_cols) : side_a_stats[c] = 0 })

C6_Witness ==
  /\ shown
  /\ picked_b = {}
  /\ \E c \in Range(numeric_cols) : side_a_stats[c] > 0 /\ styles[c].side_a
  /\ \E c \in Range(numeric_cols) : side_a_stats[c] < 0 /\ styles[c].side_b

\* C7: a non-empty table without any category is reported as an error
\* before anything is aggregated, ranked, tallied or concluded.
C7_NoCategoryIsError ==
  (PastButton /\ ~empty(df) /\ df.cols = <<>>) => NoneComputed

\* C8: an execution without a fetch leaves the stored CSV as it is, and
\* repeating an execution without a fetch, with the same picks, over it
\* yields the same table and the same results.
C8_RerunIsIdempotent ==
  [][ /\ fetch' = "none" => csv' = csv
      /\ (fetch = "none" /\ fetch' = "none"
            /\ picked_a' = picked_a /\ picked_b' = picked_b)
         => (df' = df /\ results' = results
               /\ side_a_selected' = side_a_selected
               /\ side_b_selected' = side_b_selected) ]_vars

C8_Witness ==
  /\ repeated
  /\ shown
  /\ picked_a # {}
  /\ picked_b # {}
  /\ headline = "Side A wins"

\* C9: an execution whose fetch fails with a RequestException goes on with
\* an empty table, computes no aggregate, percentile, tally or outcome,
\* whatever the CSV held, and leaves the stored CSV as it is.
C9_FailedFetchShowsNothing ==
  [][ fetch' = "failed" => (csv' = csv /\ empty(df') /\ NoneComputed') ]_vars

C9_Witness ==
  /\ fetch = "failed"
  /\ csv.present
  /\ ~empty(load_csv(csv))
  /\ ~shown

\* C10: after a successful fetch the table compared is the fetched table and
\* the stored CSV holds it; every execution without a fetch then loads that
\* table, until the next successful fetch; without a CSV and without a
\* successful fetch no comparison is shown.
C10_FetchedTableReplaces ==
  /\ fetch = "ok" =>
       /\ live.present
       /\ df = live.value
       /\ shown
       /\ numeric_cols = live.value.cols
  /\ live.present =>
       /\ csv = Some(to_csv(live.value))
       /\ fetch = "none" => (df = live.value /\ shown)
  /\ (~csv.present /\ fetch # "ok") => ~shown

C10_Witness ==
  /\ fetch = "none"
  /\ live.present
  /\ df = live.value
  /\ Len(df.rows) = 2
  /\ shown

====
